---- MODULE Spec2Model ----
(***************************************************************************)
(* A model of DotnetNunitParser (src/parsers/dotnet-nunit).                *)
(*                                                                         *)
(* JavaScript strings that the code inspects character by character        *)
(* (trim, split, the stack-trace regular expression, path.basename and     *)
(* path.dirname) are sequences of one-character strings.  Attribute values *)
(* the code only compares with === (classname, result) and the source      *)
(* label are TLA+ strings.  An optional value is a sequence of length 0    *)
(* (undefined) or 1.                                                       *)
(***************************************************************************)
EXTENDS Integers, Sequences, FiniteSets, TLC

VARIABLES
    options,        \* the ParseOptions given to the constructor
    trackedFiles,   \* this.trackedFiles: base file name -> tracked paths
    pending,        \* parse() calls suspended at the await of getNunitReport
    op,             \* the method that has just completed, "none" between calls
    args,           \* its arguments
    result          \* what it returned or threw

vars == <<options, trackedFiles, pending, op, args, result>>

-----------------------------------------------------------------------------
(* Optional values and outcomes of a call *)

None == <<>>

Some(v) == <<v>>

\* A call either returns a value or throws.
Returned(v) == [thrown |-> FALSE, value |-> v]

Thrown(e) == [thrown |-> TRUE, value |-> e]

\* The TypeError the runtime throws for a property read of undefined, a call
\* of a value that is no function, or an iteration over a value that is not
\* iterable.
TypeError == [name |-> "TypeError", message |-> <<>>]

-----------------------------------------------------------------------------
(* Characters and strings *)

Digits == <<"0", "1", "2", "3", "4", "5", "6", "7", "8", "9">>

IsDigit(c) == \E i \in 1..Len(Digits) : Digits[i] = c

DigitValue(c) == (CHOOSE i \in 1..Len(Digits) : Digits[i] = c) - 1

\* The characters that sort at or below 'Z' in UTF-16 code unit order, among
\* the characters the model's strings are written with: control characters,
\* space, punctuation up to '@', the digits and the upper-case letters.  The
\* lower-case letters, '_' and '\' sort above 'Z'.
AtOrBelowZ(c) ==
    \/ IsDigit(c)
    \/ c \in {"\t", "\n", "\r", " ", "$", "(", ")", ".", "/", ":"}
    \/ c \in {"A", "B", "C", "D", "E", "F", "G", "H", "I", "J", "K", "L", "M",
              "N", "O", "P", "Q", "R", "S", "T", "U", "V", "W", "X", "Y", "Z"}

\* White space as String.prototype.trim sees it.
IsWhiteSpace(c) == c \in {" ", "\t", "\n", "\r"}

\* A character the regular expression's '.' does not match.
IsLineTerminator(c) == c \in {"\n", "\r"}

RECURSIVE TrimStart(_)
TrimStart(s) ==
    IF s # <<>> /\ IsWhiteSpace(Head(s)) THEN TrimStart(Tail(s)) ELSE s

RECURSIVE TrimEnd(_)
TrimEnd(s) ==
    IF s # <<>> /\ IsWhiteSpace(s[Len(s)])
    THEN TrimEnd(SubSeq(s, 1, Len(s) - 1))
    ELSE s

\* String.prototype.trim
Trim(s) == TrimEnd(TrimStart(s))

\* String.prototype.split with a one-character separator: the empty string
\* splits into one empty part.
RECURSIVE Split(_, _)
Split(s, sep) ==
    IF \A i \in 1..Len(s) : s[i] # sep
    THEN <<s>>
    ELSE LET i == CHOOSE k \in 1..Len(s) :
                      s[k] = sep /\ \A j \in 1..(k - 1) : s[j] # sep
         IN  <<SubSeq(s, 1, i - 1)>> \o Split(SubSeq(s, i + 1, Len(s)), sep)

\* stackTrace.split(/\r?\n/): every LF ends a line, and a CR right before
\* that LF belongs to the separator.
SplitLines(s) ==
    LET parts == Split(s, "\n")
        strip(p) == IF p # <<>> /\ p[Len(p)] = "\r"
                    THEN SubSeq(p, 1, Len(p) - 1)
                    ELSE p
    IN  [i \in 1..Len(parts) |->
            IF i < Len(parts) THEN strip(parts[i]) ELSE parts[i]]

\* parseInt of a string of decimal digits.
RECURSIVE ParseInt(_)
ParseInt(s) ==
    IF s = <<>>
    THEN 0
    ELSE 10 * ParseInt(SubSeq(s, 1, Len(s) - 1)) + DigitValue(s[Len(s)])

\* Array.prototype.join of strings.
RECURSIVE Join(_, _)
Join(parts, sep) ==
    IF parts = <<>> THEN <<>>
    ELSE IF Len(parts) = 1 THEN parts[1]
    ELSE parts[1] \o sep \o Join(Tail(parts), sep)

-----------------------------------------------------------------------------
(* Node's path module, POSIX flavour *)

\* path.basename(p): the part after the last slash, trailing slashes dropped.
Basename(p) ==
    LET ends == {i \in 1..Len(p) : p[i] # "/"}
    IN  IF ends = {}
        THEN <<>>
        ELSE LET e == CHOOSE i \in ends : \A j \in ends : j <= i
                 slashes == {i \in 1..e : p[i] = "/"}
                 s == IF slashes = {}
                      THEN 0
                      ELSE CHOOSE i \in slashes : \A j \in slashes : j <= i
             IN  SubSeq(p, s + 1, e)

\* path.dirname(p): everything before the last slash that is followed by a
\* name; "." for a bare name, "/" below the root.
Dirname(p) ==
    IF p = <<>>
    THEN <<".">>
    ELSE LET hasRoot == p[1] = "/"
             cuts == {i \in 2..Len(p) :
                         p[i] = "/" /\ \E j \in (i + 1)..Len(p) : p[j] # "/"}
         IN  IF cuts = {}
             THEN IF hasRoot THEN <<"/">> ELSE <<".">>
             ELSE LET e == CHOOSE i \in cuts : \A j \in cuts : j <= i
                  IN  IF hasRoot /\ e = 2
                      THEN <<"/", "/">>
                      ELSE SubSeq(p, 1, e - 1)

-----------------------------------------------------------------------------
(* The tracked-file index *)

\* normalizeFilePath of utils/path-utils: back slashes become forward slashes.
normalizeFilePath(p) ==
    [i \in 1..Len(p) |-> IF p[i] = "\\" THEN "/" ELSE p[i]]

\* Property names a plain object inherits from Object.prototype, among the
\* file names of the model: Object.prototype.constructor, a function.
ObjectPrototypeKeys ==
    { <<"c", "o", "n", "s", "t", "r", "u", "c", "t", "o", "r">> }

\* obj[key] on the plain object this.trackedFiles ({} at line 21): an own
\* property, else a member of Object.prototype, else undefined.
GetProperty(obj, key) ==
    IF key \in DOMAIN obj
    THEN [kind |-> "own", value |-> obj[key]]
    ELSE IF key \in ObjectPrototypeKeys
    THEN [kind |-> "inherited", value |-> <<>>]
    ELSE [kind |-> "undefined", value |-> <<>>]

\* obj with obj[key] = value
SetProperty(obj, key, value) ==
    [k \in (DOMAIN obj) \cup {key} |-> IF k = key THEN value ELSE obj[k]]

\* The constructor's loop over options.trackedFiles.  An inherited member is
\* not nullish, so ?? keeps it and the call of its push throws.
RECURSIVE AddTrackedFiles(_, _)
AddTrackedFiles(index, paths) ==
    IF paths = <<>>
    THEN Returned(index)
    ELSE LET filePath == Head(paths)
             fileName == Basename(filePath)
             found == GetProperty(index, fileName)
         IN  IF found.kind = "inherited"
             THEN Thrown(TypeError)
             ELSE LET files == IF found.kind = "own" THEN found.value ELSE <<>>
                  IN  AddTrackedFiles(
                          SetProperty(index, fileName,
                                      Append(files, normalizeFilePath(filePath))),
                          Tail(paths))

\* The object literal {}
EmptyObject == [k \in {} |-> <<>>]

\* new DotnetNunitParser(options).trackedFiles
Constructor(opts) == AddTrackedFiles(EmptyObject, opts.trackedFiles)

-----------------------------------------------------------------------------
(* getFilePath *)

\* part[0] <= 'Z': undefined for the empty part, which compares false.
StartsAtOrBelowZ(part) == part # <<>> /\ AtOrBelowZ(part[1])

\* The trace path cut at the first part that StartsAtOrBelowZ.
PackageParts(tracePath) ==
    LET parts == Split(tracePath, ".")
        hits == {i \in 1..Len(parts) : StartsAtOrBelowZ(parts[i])}
    IN  IF hits = {}
        THEN parts
        ELSE LET first == CHOOSE i \in hits : \A j \in hits : i <= j
             IN  SubSeq(parts, 1, first - 1)

\* The body of the loop over the candidates: whether the last
\* Len(packageParts) directories of filePath are the package parts.
IsMatch(packageParts, filePath) ==
    LET dirs == Split(Dirname(filePath), "/")
        n == Len(packageParts)
    IN  /\ n <= Len(dirs)
        /\ LET parents == SubSeq(dirs, Len(dirs) - n + 1, Len(dirs))
           IN  \A i \in 1..n : packageParts[i] = parents[i]

getFilePath(index, tracePath, fileName) ==
    LET files == GetProperty(index, fileName)
        packageParts == PackageParts(tracePath)
    IN  IF files.kind = "undefined"
        THEN Returned(None)
        ELSE IF Len(packageParts) = 0
        THEN Returned(None)
        ELSE IF files.kind = "inherited"
        THEN Thrown(TypeError)      \* for..of over a function
        ELSE LET hits == {i \in 1..Len(files.value) :
                             IsMatch(packageParts, files.value[i])}
             IN  IF hits = {}
                 THEN Returned(None)
                 ELSE Returned(Some(files.value[
                          CHOOSE i \in hits : \A j \in hits : i <= j]))

-----------------------------------------------------------------------------
(* exceptionThrowSource *)

\* str.match(/^at (.*)\((.*):(\d+)\)$/): the groups, or None.  Both (.*) are
\* greedy: the first takes the last '(' that lets the rest match.
Match(str) ==
    LET n == Len(str)
        ok(p, q) ==
            /\ str[1] = "a" /\ str[2] = "t" /\ str[3] = " "
            /\ str[p] = "(" /\ str[q] = ":" /\ str[n] = ")"
            /\ q + 1 <= n - 1
            /\ \A k \in (q + 1)..(n - 1) : IsDigit(str[k])
            /\ \A k \in 4..(q - 1) : ~IsLineTerminator(str[k])
        found == {pq \in (4..n) \X (4..n) : pq[1] < pq[2] /\ ok(pq[1], pq[2])}
    IN  IF found = {}
        THEN None
        ELSE LET g == CHOOSE pq \in found :
                          \A o \in found :
                              \/ o[1] < pq[1]
                              \/ o[1] = pq[1] /\ o[2] <= pq[2]
             IN  Some([tracePath |-> SubSeq(str, 4, g[1] - 1),
                       fileName  |-> SubSeq(str, g[1] + 1, g[2] - 1),
                       lineStr   |-> SubSeq(str, g[2] + 1, n - 1)])

\* The loop over the lines of the stack trace.
RECURSIVE ScanLines(_, _)
ScanLines(index, lines) ==
    IF lines = <<>>
    THEN Returned(None)
    ELSE LET match == Match(Head(lines))
         IN  IF match = None
             THEN ScanLines(index, Tail(lines))
             ELSE LET filePath == getFilePath(index, match[1].tracePath,
                                              match[1].fileName)
                  IN  IF filePath.thrown
                      THEN filePath
                      ELSE IF filePath.value # None
                      THEN Returned(Some([filePath |-> filePath.value[1],
                                          line |-> ParseInt(match[1].lineStr)]))
                      ELSE ScanLines(index, Tail(lines))

exceptionThrowSource(index, stackTrace) ==
    ScanLines(index, SplitLines(stackTrace))

-----------------------------------------------------------------------------
(* Numbers *)

\* A JavaScript number: NaN, or a count of thousandths (a time in seconds
\* has `thousandths` milliseconds).
NaN == [nan |-> TRUE, thousandths |-> 0]

Number(n) == [nan |-> FALSE, thousandths |-> n]

\* The leading digits of s
RECURSIVE LeadingDigits(_)
LeadingDigits(s) ==
    IF s # <<>> /\ IsDigit(Head(s))
    THEN <<Head(s)>> \o LeadingDigits(Tail(s))
    ELSE <<>>

\* parseFloat(text) for an optional text written with digits, '.' and
\* letters, with at most three decimals: the longest prefix that reads as a
\* decimal number, NaN when there is none (so also for undefined).
ParseFloat(text) ==
    IF text = None
    THEN NaN
    ELSE LET s == TrimStart(text[1])
             int == LeadingDigits(s)
             rest == SubSeq(s, Len(int) + 1, Len(s))
             frac == IF rest # <<>> /\ Head(rest) = "."
                     THEN LeadingDigits(Tail(rest))
                     ELSE <<>>
             decimals == IF Len(frac) < 3 THEN Len(frac) ELSE 3
             scale == CASE decimals = 0 -> 0
                        [] decimals = 1 -> 100
                        [] decimals = 2 -> 10
                        [] OTHER -> 1
         IN  IF int = <<>> /\ frac = <<>>
             THEN NaN
             ELSE Number(1000 * ParseInt(int)
                         + scale * ParseInt(SubSeq(frac, 1, decimals)))

\* x * 1000
TimesThousand(x) ==
    IF x.nan THEN NaN ELSE Number(x.thousandths * 1000)

-----------------------------------------------------------------------------
(* Test cases *)

\* Whether a value of type Failure | undefined is truthy: an object is, a
\* string is unless it is empty, undefined is not.
Truthy(failure) ==
    /\ failure # None
    /\ failure[1].object \/ failure[1].text # <<>>

getTestCaseResult(test) ==
    IF Truthy(test.failure)
    THEN "failed"
    ELSE IF test.attrs.result = Some("Skipped")
    THEN "skipped"
    ELSE "success"

getTestCaseError(opts, index, tc) ==
    IF ~opts.parseErrors
    THEN Returned(None)
    ELSE IF ~Truthy(tc.failure)
    THEN Returned(None)
    ELSE LET failure == tc.failure[1]
             details == failure.text
             src == exceptionThrowSource(index, details)
         IN  IF src.thrown
             THEN src
             ELSE Returned(Some(
                      [path |-> IF src.value # None
                                THEN Some(src.value[1].filePath)
                                ELSE None,
                       line |-> IF src.value # None
                                THEN Some(src.value[1].line)
                                ELSE None,
                       details |-> details,
                       message |-> IF failure.object
                                   THEN failure.message
                                   ELSE None]))

\* The error getGroups hands to new TestCaseResult: the literal undefined.
TestCaseResultError(opts, index, tc) == None

\* The same loop looking only at the group appended last.
RECURSIVE GroupByClassnameAdjacent(_, _)
GroupByClassnameAdjacent(groups, cases) ==
    IF cases = <<>>
    THEN groups
    ELSE LET tc == Head(cases)
             n == Len(groups)
         IN  IF n = 0 \/ groups[n].describe # tc.attrs.classname
             THEN GroupByClassnameAdjacent(
                      Append(groups, [describe |-> tc.attrs.classname,
                                      tests |-> <<tc>>]),
                      Tail(cases))
             ELSE GroupByClassnameAdjacent(
                      [groups EXCEPT ![n].tests = Append(@, tc)],
                      Tail(cases))

\* The first loop of getGroups: the cases grouped by classname, a new group
\* appended when groups.find finds none with that classname.
RECURSIVE GroupByClassname(_, _)
GroupByClassname(groups, cases) ==
    IF cases = <<>>
    THEN groups
    ELSE LET tc == Head(cases)
             found == {i \in 1..Len(groups) :
                          groups[i].describe = tc.attrs.classname}
         IN  IF found = {}
             THEN GroupByClassname(
                      Append(groups, [describe |-> tc.attrs.classname,
                                      tests |-> <<tc>>]),
                      Tail(cases))
             ELSE LET i == CHOOSE k \in found : \A j \in found : k <= j
                  IN  GroupByClassname(
                          [groups EXCEPT ![i].tests = Append(@, tc)],
                          Tail(cases))

\* new TestCaseResult(name, result, time, undefined) of the inner map.
ToTestCaseResult(opts, index, tc) ==
    [name |-> Trim(tc.attrs.name[1]),
     result |-> getTestCaseResult(tc),
     time |-> TimesThousand(ParseFloat(tc.attrs.duration)),
     error |-> TestCaseResultError(opts, index, tc)]

getGroups(opts, index, suite) ==
    IF suite.testCase = None
    THEN Returned(<<>>)
    ELSE LET groups == GroupByClassname(<<>>, suite.testCase[1])
         IN  IF \E i \in 1..Len(groups) :
                    \E j \in 1..Len(groups[i].tests) :
                        groups[i].tests[j].attrs.name = None
             THEN Thrown(TypeError)     \* undefined.trim()
             ELSE Returned(
                      [i \in 1..Len(groups) |->
                          [name |-> groups[i].describe,
                           tests |-> [j \in 1..Len(groups[i].tests) |->
                                         ToTestCaseResult(opts, index,
                                             groups[i].tests[j])]]])

-----------------------------------------------------------------------------
(* Test suites *)

\* Whether the traversal goes into the nested suites of a suite with these
\* groups.
DescendsAlways(groups) == TRUE

Descends(groups) == Len(groups) = 0

\* The depth the nested suites of a suite at `depth` are visited with.
NestedDepthSame(depth) == depth

NestedDepth(depth) == depth + 1

RECURSIVE getTestSuiteResultRecursive(_, _, _, _, _)
RECURSIVE MapTestSuites(_, _, _, _, _)

\* testSuites.map of getTestSuiteResultRecursive: the suites in order, each
\* pushed on suiteResults before its nested suites are visited.
MapTestSuites(opts, index, testSuites, suiteResults, depth) ==
    IF testSuites = <<>>
    THEN Returned(suiteResults)
    ELSE LET ts == Head(testSuites)
             groups == getGroups(opts, index, ts)
         IN  IF ts.attrs.name = None
             THEN Thrown(TypeError)     \* undefined.trim()
             ELSE IF groups.thrown
             THEN groups
             ELSE LET sr == [name |-> Trim(ts.attrs.name[1]),
                             groups |-> groups.value,
                             time |-> TimesThousand(ParseFloat(ts.attrs.duration)),
                             depth |-> depth]
                      pushed == Append(suiteResults, sr)
                      nested ==
                          IF Descends(groups.value)
                          THEN getTestSuiteResultRecursive(
                                   opts, index, ts.testSuite, pushed,
                                   NestedDepth(depth))
                          ELSE Returned(pushed)
                  IN  IF nested.thrown
                      THEN nested
                      ELSE MapTestSuites(opts, index, Tail(testSuites),
                                         nested.value, depth)

getTestSuiteResultRecursive(opts, index, testSuites, suiteResults, depth) ==
    IF testSuites = None
    THEN Returned(suiteResults)
    ELSE MapTestSuites(opts, index, testSuites[1], suiteResults, depth)

\* The depth getTestRunResult starts the traversal at.
TopLevelDepth == 0

getTestRunResult(opts, index, filePath, nunit) ==
    IF nunit.testRun = None
    THEN Thrown(TypeError)      \* undefined['test-suite']
    ELSE LET run == nunit.testRun[1]
             suites == getTestSuiteResultRecursive(
                           opts, index, run.testSuite, <<>>, TopLevelDepth)
             seconds == ParseFloat(IF run.attrs = None
                                   THEN None
                                   ELSE run.attrs[1].time)
         IN  IF suites.thrown
             THEN suites
             ELSE Returned([path |-> filePath,
                            suites |-> suites.value,
                            time |-> IF seconds.nan
                                     THEN None
                                     ELSE Some(TimesThousand(seconds))])

-----------------------------------------------------------------------------
(* parse *)

\* parseStringPromise(content) of xml2js: the report the text deserializes
\* to, or a rejection when the text is malformed.
parseStringPromise(content) ==
    IF content.wellFormed
    THEN Returned(content.report)
    ELSE Thrown([name |-> "Error", message |-> <<"Unclosed root tag">>])

getNunitReport(filePath, content) ==
    LET parsed == parseStringPromise(content)
    IN  IF parsed.thrown
        THEN Thrown([name |-> "Error",
                     message |-> <<"Invalid XML at ", filePath>>
                                     \o parsed.value.message])
        ELSE parsed

\* parse(filePath, content), once the awaited getNunitReport has settled.
parse(opts, index, filePath, content) ==
    LET reportOrSuite == getNunitReport(filePath, content)
    IN  IF reportOrSuite.thrown
        THEN reportOrSuite
        ELSE getTestRunResult(opts, index, filePath, reportOrSuite.value)

-----------------------------------------------------------------------------
(* The inputs the calls are made with *)

\* Longest list of tracked files given to the constructor.
MaxTracked == 2

\* Most dotted parts of a trace path.
MaxParts == 3

\* Most lines of a stack trace.
MaxLines == 2

\* Sequences over S of length at most n
RECURSIVE SeqsUpTo(_, _)
SeqsUpTo(S, n) ==
    IF n = 0
    THEN {<<>>}
    ELSE LET shorter == SeqsUpTo(S, n - 1)
         IN  shorter \cup {Append(q, x) : q \in shorter, x \in S}

\* Paths of tracked source files, as options.trackedFiles lists them.
TrackedPaths ==
    { <<"s", "r", "c", "/", "c", "o", "m", "/", "f", "o", "o", "/", "B", "a", "r", ".", "j", "a", "v", "a">>,   \* src/com/foo/Bar.java
      <<"t", "e", "s", "t", "/", "c", "o", "m", "/", "f", "o", "o", "/", "B", "a", "r", ".", "j", "a", "v", "a">>,   \* test/com/foo/Bar.java
      <<"f", "o", "o", "/", "B", "a", "r", ".", "j", "a", "v", "a">>,   \* foo/Bar.java
      <<"B", "a", "r", ".", "j", "a", "v", "a">> }   \* Bar.java

\* Dotted parts of trace paths: packages, a class, a generated name.
Parts ==
    { <<"c", "o", "m">>,   \* com
      <<"f", "o", "o">>,   \* foo
      <<"B", "a", "r">>,   \* Bar
      <<"$", "g", "e", "n">> }   \* $gen

\* Trace paths, as the first group of the regular expression captures them.
TracePaths == {Join(parts, <<".">>) : parts \in SeqsUpTo(Parts, MaxParts)}

\* File names, as the second group captures them.
FileNames ==
    { <<"B", "a", "r", ".", "j", "a", "v", "a">>,   \* Bar.java
      <<"B", "a", "z", ".", "j", "a", "v", "a">>,   \* Baz.java
      <<"c", "o", "n", "s", "t", "r", "u", "c", "t", "o", "r">> }   \* constructor

\* Lines of stack traces.
TraceLines ==
    { <<"a", "t", " ", "c", "o", "m", ".", "f", "o", "o", ".", "B", "a", "r", ".", "b", "a", "z", "(", "B", "a", "r", ".", "j", "a", "v", "a", ":", "4", "2", ")">>,   \* at com.foo.Bar.baz(Bar.java:42)
      <<"a", "t", " ", "f", "o", "o", ".", "B", "a", "r", ".", "r", "u", "n", "(", "B", "a", "r", ".", "j", "a", "v", "a", ":", "7", ")">>,   \* at foo.Bar.run(Bar.java:7)
      <<"a", "t", " ", "c", "o", "m", ".", "f", "o", "o", ".", "B", "a", "z", ".", "r", "u", "n", "(", "B", "a", "z", ".", "j", "a", "v", "a", ":", "9", ")">>,   \* at com.foo.Baz.run(Baz.java:9)
      <<"a", "t", " ", "B", "a", "r", ".", "b", "a", "z", "(", "B", "a", "r", ".", "j", "a", "v", "a", ":", "1", ")">>,   \* at Bar.baz(Bar.java:1)
      <<"j", "a", "v", "a", ".", "l", "a", "n", "g", ".", "E", "r", "r", "o", "r", ":", " ", "b", "o", "o", "m">>,   \* java.lang.Error: boom
      <<"a", "t", " ", "c", "o", "m", ".", "f", "o", "o", ".", "B", "a", "r", ".", "g", "e", "t", "(", "c", "o", "n", "s", "t", "r", "u", "c", "t", "o", "r", ":", "3", ")">> }   \* at com.foo.Bar.get(constructor:3)

\* Line separators a stack trace is written with.
LineSeparators == { <<"\n">>, <<"\r", "\n">> }

StackTraces ==
    {Join(lines, sep) : lines \in SeqsUpTo(TraceLines, MaxLines),
                        sep \in LineSeparators}

\* src/com/foo/Bar.java
SrcBar ==
    <<"s", "r", "c", "/", "c", "o", "m", "/", "f", "o", "o", "/",
      "B", "a", "r", ".", "j", "a", "v", "a">>

\* The options a parser is constructed with.
Options ==
    [trackedFiles : SeqsUpTo(TrackedPaths, MaxTracked), parseErrors : BOOLEAN]

\* Trace paths, file names and stack traces of the calls that interleave with
\* parse.
SomeTracePaths ==
    { <<"c", "o", "m", ".", "f", "o", "o", ".", "B", "a", "r", ".", "b", "a", "z">>,   \* com.foo.Bar.baz
      <<"f", "o", "o", ".", "B", "a", "r", ".", "r", "u", "n">>,   \* foo.Bar.run
      <<"B", "a", "r", ".", "b", "a", "z">>,   \* Bar.baz
      <<>> }

SomeFileNames ==
    { <<"B", "a", "r", ".", "j", "a", "v", "a">>,   \* Bar.java
      <<"c", "o", "n", "s", "t", "r", "u", "c", "t", "o", "r">> }   \* constructor

SomeStackTraces == TraceLines

-----------------------------------------------------------------------------
(* Reports *)

\* Most test cases of a suite given to getGroups.
MaxCases == 3

\* Most suites of a report given to getTestRunResult, nested ones included.
MaxSuites == 3

\* Most parse calls suspended at a time.
MaxInFlight == 2

Seconds == Some(<<"1", ".", "5">>)

\* at com.foo.Bar.baz(Bar.java:42)
BarTrace ==
    <<"a", "t", " ", "c", "o", "m", ".", "f", "o", "o", ".", "B", "a", "r",
      ".", "b", "a", "z", "(", "B", "a", "r", ".", "j", "a", "v", "a", ":",
      "4", "2", ")">>

\* at com.foo.Baz.run(Baz.java:9)
BazTrace ==
    <<"a", "t", " ", "c", "o", "m", ".", "f", "o", "o", ".", "B", "a", "z",
      ".", "r", "u", "n", "(", "B", "a", "z", ".", "j", "a", "v", "a", ":",
      "9", ")">>

\* A <failure> with message and stack trace.
FailureObject(stackTrace) ==
    [object |-> TRUE, message |-> Some(<<"b", "o", "o", "m">>),
     text |-> stackTrace]

\* A failure that deserialized to a bare string.
FailureString(text) == [object |-> FALSE, message |-> None, text |-> text]

Failures ==
    { None,
      Some(FailureString(<<>>)),
      Some(FailureString(BarTrace)),
      Some(FailureObject(BarTrace)),
      Some(FailureObject(BazTrace)) }

TestCase(classname, name, duration, res, failure) ==
    [attrs |-> [classname |-> classname, name |-> name,
                duration |-> duration, result |-> res],
     failure |-> failure]

\* The name of the i-th test case of a suite, written with blanks around it.
CaseName(i) == <<" ", "t", Digits[i + 1], " ">>

\* Test cases as getTestCaseResult and getTestCaseError take them.
TestCases ==
    {TestCase(Some("A"), Some(CaseName(1)), Seconds, res, failure) :
        res \in {Some("Passed"), Some("Skipped"), Some("skipped"), None},
        failure \in Failures}

\* What varies from test case to test case in a list of them: the
\* classname, whether the case failed, and whether it has a name.
CaseKinds ==
    [classname : {Some("A"), Some("B"), None}, named : {TRUE},
     failure : {None, Some(FailureObject(BarTrace))}]
        \cup [classname : {Some("A")}, named : {FALSE}, failure : {None}]

\* Lists of test cases, the i-th one named after i when it has a name.
TestCaseLists ==
    {[i \in 1..Len(kinds) |->
         TestCase(kinds[i].classname,
                  IF kinds[i].named THEN Some(CaseName(i)) ELSE None,
                  Seconds, Some("Passed"), kinds[i].failure)] :
        kinds \in SeqsUpTo(CaseKinds, MaxCases)}

TestSuite(name, duration, testCase, testSuite) ==
    [attrs |-> [name |-> name, duration |-> duration],
     testCase |-> testCase, testSuite |-> testSuite]

\* Suites as getGroups takes them.
TestSuites ==
    {TestSuite(Some(<<"s">>), Seconds, testCase, None) :
        testCase \in {None} \cup {Some(cases) : cases \in TestCaseLists}}

PassingCase ==
    TestCase(Some("A"), Some(CaseName(1)), Seconds, Some("Passed"), None)

\* The test-case list of a suite of a report: none, an empty one, one case.
SuiteCases == {None, Some(<<>>), Some(<<PassingCase>>)}

\* Lists of suites with n suites in all, nested ones included, not yet named.
RECURSIVE Shapes(_)
Shapes(n) ==
    IF n = 0
    THEN {<<>>}
    ELSE UNION {
             {<<TestSuite(None, Seconds, cases, nested)>> \o rest :
                 cases \in SuiteCases,
                 nested \in IF k = 1
                            THEN {None, Some(<<>>)}
                            ELSE {Some(list) : list \in Shapes(k - 1)},
                 rest \in Shapes(n - k)} : k \in 1..n}

\* The suites of a list named after their places: " s2 " is the second
\* top-level suite, " s21 " its first nested suite.
RECURSIVE Named(_, _)
Named(list, prefix) ==
    [i \in 1..Len(list) |->
        LET name == prefix \o <<Digits[i + 1]>>
        IN  [list[i] EXCEPT
                !.attrs.name = Some(<<" ">> \o name \o <<" ">>),
                !.testSuite = IF @ = None
                              THEN None
                              ELSE Some(Named(@[1], name))]]

SuiteLists ==
    UNION {{Named(list, <<"s">>) : list \in Shapes(n)} : n \in 0..MaxSuites}

Report(attrs, testSuite) ==
    [testRun |-> Some([attrs |-> attrs, testSuite |-> testSuite])]

RunAttrs == Some([time |-> Some(<<"2">>)])

\* Deserialized reports as getTestRunResult takes them.
Reports ==
    {Report(RunAttrs, testSuite) :
        testSuite \in {None} \cup {Some(list) : list \in SuiteLists}}

WellFormed(report) == [wellFormed |-> TRUE, report |-> report]

\* Text the deserializer rejects.
Malformed == [wellFormed |-> FALSE, report |-> Report(None, None)]

S1 == <<" ", "s", "1", " ">>

\* Report texts given to parse: a malformed one, a minimal report, a report
\* without run attributes and suites, one whose suite and case carry no
\* duration and no lists, one whose suite has no name, one whose test case
\* has no name.
Contents ==
    { Malformed,
      WellFormed(Report(RunAttrs,
          Some(<<TestSuite(Some(S1), Seconds, Some(<<PassingCase>>), None)>>))),
      WellFormed(Report(None, None)),
      WellFormed(Report(RunAttrs,
          Some(<<TestSuite(Some(S1), None,
                     Some(<<TestCase(None, Some(CaseName(1)), None, None, None)>>),
                     Some(<<TestSuite(Some(S1), None, None, None)>>))>>))),
      WellFormed(Report(RunAttrs,
          Some(<<TestSuite(None, Seconds, Some(<<PassingCase>>), None)>>))),
      WellFormed(Report(RunAttrs,
          Some(<<TestSuite(Some(S1), Seconds,
                     Some(<<TestCase(Some("A"), None, Seconds, Some("Passed"), None)>>),
                     None)>>))) }

\* The source labels of reports.
Labels == {"report.xml"}

-----------------------------------------------------------------------------
(* The parser instance and the calls made on it *)

\* The state after the constructor has returned.
Init ==
    /\ options \in {o \in Options : ~Constructor(o).thrown}
    /\ trackedFiles = Constructor(options).value
    /\ pending = {}
    /\ op = "none"
    /\ args = <<>>
    /\ result = Returned(None)

\* The same with one tracked file: what the transformation of a report reads
\* of the options is parseErrors.
InitTransform ==
    /\ Init
    /\ options.trackedFiles = <<SrcBar>>

\* this.trackedFiles had getFilePath spliced the candidates of the file name,
\* as it splices dirs.
TrackedFilesAfterSplicingFiles(index, tracePath, fileName) ==
    IF fileName \in DOMAIN index
    THEN [index EXCEPT ![fileName] = Tail(@)]
    ELSE index

\* this.trackedFiles after getFilePath: the method reads the index and
\* splices only the arrays it made itself (packageParts, dirs).
TrackedFilesAfterGetFilePath(index, tracePath, fileName) == index

CallGetFilePath(tracePaths, fileNames) ==
    \E tracePath \in tracePaths, fileName \in fileNames :
        /\ op = "none"
        /\ op' = "getFilePath"
        /\ args' = [tracePath |-> tracePath, fileName |-> fileName]
        /\ result' = getFilePath(trackedFiles, tracePath, fileName)
        /\ trackedFiles' =
               TrackedFilesAfterGetFilePath(trackedFiles, tracePath, fileName)
        /\ UNCHANGED <<options, pending>>

CallExceptionThrowSource(stackTraces) ==
    \E stackTrace \in stackTraces :
        /\ op = "none"
        /\ op' = "exceptionThrowSource"
        /\ args' = [stackTrace |-> stackTrace]
        /\ result' = exceptionThrowSource(trackedFiles, stackTrace)
        /\ UNCHANGED <<options, trackedFiles, pending>>

CallGetTestCaseResult ==
    \E test \in TestCases :
        /\ op = "none"
        /\ op' = "getTestCaseResult"
        /\ args' = [test |-> test]
        /\ result' = Returned(getTestCaseResult(test))
        /\ UNCHANGED <<options, trackedFiles, pending>>

CallGetTestCaseError ==
    \E tc \in TestCases :
        /\ op = "none"
        /\ op' = "getTestCaseError"
        /\ args' = [tc |-> tc]
        /\ result' = getTestCaseError(options, trackedFiles, tc)
        /\ UNCHANGED <<options, trackedFiles, pending>>

CallGetGroups ==
    \E suite \in TestSuites :
        /\ op = "none"
        /\ op' = "getGroups"
        /\ args' = [suite |-> suite]
        /\ result' = getGroups(options, trackedFiles, suite)
        /\ UNCHANGED <<options, trackedFiles, pending>>

CallGetTestRunResult ==
    \E filePath \in Labels, nunit \in Reports :
        /\ op = "none"
        /\ op' = "getTestRunResult"
        /\ args' = [filePath |-> filePath, nunit |-> nunit]
        /\ result' = getTestRunResult(options, trackedFiles, filePath, nunit)
        /\ UNCHANGED <<options, trackedFiles, pending>>

\* parse is called and suspends at its await.
CallParse ==
    \E filePath \in Labels, content \in Contents :
        /\ op = "none"
        /\ Cardinality(pending) < MaxInFlight
        /\ pending' = pending \cup {[filePath |-> filePath, content |-> content]}
        /\ UNCHANGED <<options, trackedFiles, op, args, result>>

\* The deserialization of a suspended parse settles and the call runs to
\* its end.
ResumeParse ==
    \E call \in pending :
        /\ op = "none"
        /\ pending' = pending \ {call}
        /\ op' = "parse"
        /\ args' = call
        /\ result' = parse(options, trackedFiles, call.filePath, call.content)
        /\ UNCHANGED <<options, trackedFiles>>

\* The caller takes the outcome of the call that has just completed.
TakeResult ==
    /\ op # "none"
    /\ op' = "none"
    /\ args' = <<>>
    /\ result' = Returned(None)
    /\ UNCHANGED <<options, trackedFiles, pending>>

Next ==
    \/ CallParse
    \/ ResumeParse
    \/ CallGetFilePath(SomeTracePaths, SomeFileNames)
    \/ CallExceptionThrowSource(SomeStackTraces)
    \/ TakeResult

\* A parser instance on which parse calls and source resolutions interleave.
Spec == Init /\ [][Next]_vars

NextResolve ==
    \/ CallGetFilePath(TracePaths, FileNames)
    \/ CallExceptionThrowSource(StackTraces)
    \/ TakeResult

\* Source resolution alone, over the full sets of trace paths and traces.
SpecResolve == Init /\ [][NextResolve]_vars

NextTransform ==
    \/ CallGetTestCaseResult
    \/ CallGetTestCaseError
    \/ CallGetGroups
    \/ CallGetTestRunResult
    \/ TakeResult

\* The transformation of deserialized reports and of their parts.
SpecTransform == InitTransform /\ [][NextTransform]_vars

-----------------------------------------------------------------------------
(* Claims about test cases and groups, checked under SpecTransform *)

\* C1: getTestCaseResult gives 'failed' whenever a failure element is
\* present, whatever the result attribute and also for a failure that is a
\* bare, possibly empty, string; otherwise 'skipped' exactly when the
\* result attribute is the exact string "Skipped"; otherwise 'success'.
C1_OutcomeByFailureElement ==
    op = "getTestCaseResult" =>
        result.value =
            IF args.test.failure # None
            THEN "failed"
            ELSE IF args.test.attrs.result = Some("Skipped")
            THEN "skipped"
            ELSE "success"

\* The test cases of a suite, none when the list is absent.
CasesOf(suite) == IF suite.testCase = None THEN <<>> ELSE suite.testCase[1]

\* The test cases of a list with a classname, in their order.
WithClassname(cases, classname) ==
    SelectSeq(cases, LAMBDA tc : tc.attrs.classname = classname)

\* The place of the first test case with a classname.
FirstSeen(cases, classname) ==
    CHOOSE i \in 1..Len(cases) :
        /\ cases[i].attrs.classname = classname
        /\ \A j \in 1..(i - 1) : cases[j].attrs.classname # classname

\* C8: getGroups partitions the test cases of a suite by classname: every
\* case is in exactly one group, whose key is its classname; no two groups
\* share a key; the groups are ordered by the first occurrence of their
\* classname; the cases of a group keep their order; an absent list gives
\* no group.
C8_GroupsPartitionByClassname ==
    (op = "getGroups" /\ ~result.thrown) =>
        LET cases == CasesOf(args.suite)
            groups == result.value
        IN  /\ \A i, j \in 1..Len(groups) :
                   i # j => groups[i].name # groups[j].name
            /\ \A k \in 1..Len(cases) :
                   \E i \in 1..Len(groups) :
                       groups[i].name = cases[k].attrs.classname
            /\ \A i \in 1..Len(groups) :
                   LET members == WithClassname(cases, groups[i].name)
                   IN  /\ members # <<>>
                       /\ Len(groups[i].tests) = Len(members)
                       /\ \A j \in 1..Len(members) :
                              groups[i].tests[j].name =
                                  Trim(members[j].attrs.name[1])
            /\ \A i, j \in 1..Len(groups) :
                   i < j => FirstSeen(cases, groups[i].name)
                                < FirstSeen(cases, groups[j].name)
            /\ args.suite.testCase = None => groups = <<>>

\* getGroups has returned two groups, the first with two cases that another
\* classname separates in the suite.
C8_Witness ==
    /\ op = "getGroups"
    /\ ~result.thrown
    /\ Len(result.value) = 2
    /\ Len(result.value[1].tests) = 2
    /\ CasesOf(args.suite)[2].attrs.classname = result.value[2].name

\* C3: the error of a TestCaseResult is present exactly when parseErrors is
\* enabled and the test case has a failure, and an error that is present
\* carries the detail text.
C3_ErrorWhenParseErrorsAndFailure ==
    (op = "getGroups" /\ ~result.thrown) =>
        \A i \in 1..Len(result.value) :
            LET group == result.value[i]
                members == WithClassname(CasesOf(args.suite), group.name)
            IN  \A j \in 1..Len(group.tests) :
                    /\ group.tests[j].error # None
                           <=> (options.parseErrors /\ members[j].failure # None)
                    /\ group.tests[j].error # None =>
                           group.tests[j].error[1].details
                               = members[j].failure[1].text

-----------------------------------------------------------------------------
(* Claims about the traversal of the suites, checked under SpecTransform *)

\* The places of the suites of a list, nested ones included: <<2, 1>> is the
\* first nested suite of the second suite.
RECURSIVE Places(_)
Places(list) ==
    UNION {{<<i>>} \cup
           {<<i>> \o p : p \in IF list[i].testSuite = None
                               THEN {}
                               ELSE Places(list[i].testSuite[1])} :
              i \in 1..Len(list)}

RECURSIVE SuiteAt(_, _)
SuiteAt(list, place) ==
    IF Len(place) = 1
    THEN list[place[1]]
    ELSE SuiteAt(list[place[1]].testSuite[1], Tail(place))

HasDirectCases(suite) == CasesOf(suite) # <<>>

\* Whether place p is above place q.
IsAbove(p, q) == Len(p) < Len(q) /\ SubSeq(q, 1, Len(p)) = p

\* Whether place p comes before place q in document order.
Before(p, q) ==
    \/ IsAbove(p, q)
    \/ \E k \in 1..Len(p) :
           /\ k <= Len(q)
           /\ SubSeq(p, 1, k - 1) = SubSeq(q, 1, k - 1)
           /\ p[k] < q[k]

\* The suites of the report getTestRunResult was called with.
TopSuites ==
    IF args.nunit.testRun[1].testSuite = None
    THEN <<>>
    ELSE args.nunit.testRun[1].testSuite[1]

\* Where in the suite results the suite at a place is, by its name; every
\* suite of Reports has a name of its own.
ResultsOf(place) ==
    {k \in 1..Len(result.value.suites) :
        result.value.suites[k].name
            = Trim(SuiteAt(TopSuites, place).attrs.name[1])}

\* C2: the nested suites of a visited suite are in the output if and only if
\* the suite has no direct test case; a suite with a direct test case gives
\* exactly one TestSuiteResult and none of the suites below it is anywhere
\* in the output.
C2_NestedSuitesOnlyUnderSuitesWithoutCases ==
    (op = "getTestRunResult" /\ ~result.thrown) =>
        \A p \in Places(TopSuites) :
            LET suite == SuiteAt(TopSuites, p)
            IN  /\ Cardinality(ResultsOf(p)) <= 1
                /\ Len(p) = 1 => Cardinality(ResultsOf(p)) = 1
                /\ \A q \in Places(TopSuites) :
                       (Len(q) = Len(p) + 1 /\ IsAbove(p, q)) =>
                           (ResultsOf(q) # {}
                                <=> (ResultsOf(p) # {} /\ ~HasDirectCases(suite)))
                /\ (ResultsOf(p) # {} /\ HasDirectCases(suite)) =>
                       \A q \in Places(TopSuites) :
                           IsAbove(p, q) => ResultsOf(q) = {}

\* getTestRunResult has returned for a report with a suite that has a test
\* case and a nested suite.
C2_Witness ==
    /\ op = "getTestRunResult"
    /\ ~result.thrown
    /\ \E p, q \in Places(TopSuites) :
           /\ IsAbove(p, q)
           /\ HasDirectCases(SuiteAt(TopSuites, p))
           /\ ResultsOf(p) # {}

\* C9: the suite results are in document pre-order and the depth tells the
\* nesting: a top-level suite has depth 0, the result of a suite comes before
\* those of its nested suites, and a result of depth d > 0 comes after the
\* result of its parent, which has depth d - 1 and no group.
C9_PreOrderWithDepth ==
    (op = "getTestRunResult" /\ ~result.thrown) =>
        LET out == result.value.suites
            visited == {p \in Places(TopSuites) : ResultsOf(p) # {}}
            at(p) == CHOOSE k \in ResultsOf(p) : TRUE
        IN  /\ Len(out) = Cardinality(visited)
            /\ \A p \in visited : out[at(p)].depth = Len(p) - 1
            /\ \A p, q \in visited : Before(p, q) => at(p) < at(q)
            /\ \A q \in visited :
                   out[at(q)].depth > 0 =>
                       \E p \in visited :
                           /\ IsAbove(p, q) /\ Len(q) = Len(p) + 1
                           /\ at(p) < at(q)
                           /\ out[at(p)].depth = out[at(q)].depth - 1
                           /\ out[at(p)].groups = <<>>

\* getTestRunResult has returned a result of depth 2 that is followed by the
\* result of another top-level suite.
C9_Witness ==
    /\ op = "getTestRunResult"
    /\ ~result.thrown
    /\ \E k \in 1..Len(result.value.suites) :
           /\ result.value.suites[k].depth > 0
           /\ k < Len(result.value.suites)
           /\ result.value.suites[k + 1].depth = 0

-----------------------------------------------------------------------------
(* Claims about parse and the index, checked under Spec *)

\* C4: parse fails if and only if the deserialization of the content fails,
\* and the failure then names the label; for every report that deserializes,
\* also one with optional parts missing, parse returns.
C4_ParseFailsOnlyOnMalformedContent ==
    op = "parse" =>
        /\ result.thrown <=> ~args.content.wellFormed
        /\ result.thrown =>
               \E i \in 1..Len(result.value.message) :
                   result.value.message[i] = args.filePath

\* C10: the index of tracked files is the one the constructor built, after
\* any sequence or interleaving of parse calls and source resolutions.
C10_IndexAsConstructed == trackedFiles = Constructor(options).value

\* getFilePath has resolved a path while a parse call is suspended.
C10_Witness ==
    /\ op = "getFilePath"
    /\ ~result.thrown
    /\ result.value # None
    /\ pending # {}

-----------------------------------------------------------------------------
(* Claims about source resolution, checked under SpecResolve *)

\* The directories of a path.
Directories(filePath) == Split(Dirname(filePath), "/")

\* Whether a path has at least Len(prefix) directories and its last ones are
\* those of the prefix.
EndsWithDirectories(filePath, prefix) ==
    LET dirs == Directories(filePath)
        n == Len(prefix)
    IN  /\ n <= Len(dirs)
        /\ \A i \in 1..n : dirs[Len(dirs) - n + i] = prefix[i]

\* The tracked paths with a base name, in the order they were tracked.
TrackedWithBasename(fileName) ==
    SelectSeq([i \in 1..Len(options.trackedFiles) |->
                  normalizeFilePath(options.trackedFiles[i])],
              LAMBDA filePath : Basename(filePath) = fileName)

\* C5: getFilePath returns nothing or a tracked path whose base name is
\* fileName: the first one, in tracked order, with at least N directories
\* the last N of which are the N parts of the package prefix, and nothing
\* when there is none (so when no tracked file has that base name).  An
\* empty prefix resolves to nothing, as C6 has it.
C5_FirstCandidateUnderThePackage ==
    op = "getFilePath" =>
        LET prefix == PackageParts(args.tracePath)
            candidates == TrackedWithBasename(args.fileName)
            fitting == SelectSeq(candidates,
                           LAMBDA filePath : EndsWithDirectories(filePath, prefix))
        IN  /\ ~result.thrown
            /\ result.value =
                   IF prefix = <<>> \/ fitting = <<>>
                   THEN None
                   ELSE Some(fitting[1])

IsUpperCase(c) ==
    c \in {"A", "B", "C", "D", "E", "F", "G", "H", "I", "J", "K", "L", "M",
           "N", "O", "P", "Q", "R", "S", "T", "U", "V", "W", "X", "Y", "Z"}

\* The dotted parts before the first one that starts with an upper-case
\* letter.
PartsBeforeClass(tracePath) ==
    LET parts == Split(tracePath, ".")
        classes == {i \in 1..Len(parts) :
                       parts[i] # <<>> /\ IsUpperCase(parts[i][1])}
    IN  IF classes = {}
        THEN parts
        ELSE SubSeq(parts, 1, (CHOOSE i \in classes : \A j \in classes : i <= j) - 1)

\* C6: the package prefix getFilePath matches directories with is the dotted
\* parts before the first part that starts with an upper-case letter; when
\* the first part starts with one, the prefix is empty and nothing resolves.
C6_PrefixEndsAtFirstUpperCasePart ==
    op = "getFilePath" =>
        /\ PackageParts(args.tracePath) = PartsBeforeClass(args.tracePath)
        /\ PartsBeforeClass(args.tracePath) = <<>> =>
               (~result.thrown /\ result.value = None)

\* Whether a line matches the pattern and its file resolves to a tracked
\* path.
Resolves(line) ==
    /\ Match(line) # None
    /\ LET filePath == getFilePath(trackedFiles, Match(line)[1].tracePath,
                                   Match(line)[1].fileName)
       IN  ~filePath.thrown /\ filePath.value # None

\* C7: exceptionThrowSource gives the path and the line number of the first
\* line of the stack trace that matches the pattern and resolves; matching
\* lines that do not resolve are passed over, later lines change nothing,
\* and the result is absent when no line resolves.
C7_FirstResolvingLine ==
    op = "exceptionThrowSource" =>
        LET lines == SplitLines(args.stackTrace)
            resolving == {i \in 1..Len(lines) : Resolves(lines[i])}
        IN  /\ ~result.thrown
            /\ result.value =
                   IF resolving = {}
                   THEN None
                   ELSE LET first == CHOOSE i \in resolving :
                                         \A j \in resolving : i <= j
                            match == Match(lines[first])[1]
                        IN  Some([filePath |->
                                      getFilePath(trackedFiles, match.tracePath,
                                                  match.fileName).value[1],
                                  line |-> ParseInt(match.lineStr)])

====
